---- MODULE Spec2Model ----
(***************************************************************************)
(* Model of the shadow_getLogs pipeline of crates/rpc/src/apis/get_logs.rs *)
(* filter validation (ValidatedQueryParams::new), predicate rendering      *)
(* (Display for ValidatedQueryParams), row conversion (From<RawGetLogsRow>)*)
(* and the request handler get_logs.                                       *)
(*                                                                         *)
(* Strings the code slices or embeds into query text (addresses, topics,   *)
(* rendered predicates, wire fields) are sequences of one-character        *)
(* strings.  Block identifiers, which the code only parses and displays    *)
(* as a whole, are TLA+ strings.  Option<T> is a sequence of length 0 or 1.*)
(***************************************************************************)
EXTENDS Integers, Sequences, FiniteSets, TLC

VARIABLES
    provider,               \* the chain data source seen by ValidatedQueryParams::new
    params,                 \* SpecNew: the GetLogsParameters handed to new
    new_result,             \* SpecNew: None before the call, Some(RpcResult) after
    query_params,           \* SpecFmt: the ValidatedQueryParams being rendered
    fmt_result,             \* SpecFmt: None before rendering, Some(outcome) after
    value,                  \* SpecFrom: the RawGetLogsRow being converted
    from_result,            \* SpecFrom: None before conversion, Some(GetLogsResult) after
    req,                    \* Spec: req.params of the request being served
    pc,                     \* Spec: position of get_logs
    validated_param_objs,   \* Spec: the collected Vec<ValidatedQueryParams>
    idx,                    \* Spec: number of filter objects the query loop has finished
    results,                \* Spec: the local results vector
    response,               \* Spec: None while running, Some(RpcResult) once returned
    sql,                    \* Spec: the text of the last query sent to the store
    events                  \* Spec: history of validations and store queries, in order

vars == <<provider, params, new_result, query_params, fmt_result, value, from_result,
          req, pc, validated_param_objs, idx, results, response, sql, events>>

---------------------------------------------------------------------------
(* Bounds of the model *)

MaxBlock == 1           \* block numbers the chain data source answers with: 0..MaxBlock
MaxTopicsLen == 5       \* longest client topic list
MaxFilters == 2         \* most filter objects in one request
MaxRows == 2            \* most rows a store query returns

(* Program constants *)

MaxTopics == 4          \* params.topics.len() > 4

---------------------------------------------------------------------------
(* Option and Result *)

None == <<>>
Some(x) == <<x>>

Ok(v) == [ok |-> TRUE, val |-> <<v>>, err |-> <<>>]
Err(e) == [ok |-> FALSE, val |-> <<>>, err |-> <<e>>]

ErrorObject(code, message) == [code |-> code, message |-> message]

---------------------------------------------------------------------------
(* Client-supplied strings *)

HexDigits == <<"0", "1", "2", "3", "4", "5", "6", "7", "8", "9",
               "a", "b", "c", "d", "e", "f">>

HexChar(d) == HexDigits[d + 1]

IsHexChar(c) == \E d \in 0..15 : HexDigits[d + 1] = c

\* "0xab", "0x12": well-formed addresses; "0": shorter than the two bytes the
\* renderer skips; "0x')": an address carrying query syntax.
AddrAb == <<"0", "x", "a", "b">>
Addr12 == <<"0", "x", "1", "2">>
AddrShort == <<"0">>
AddrQuote == <<"0", "x", "'", ")">>

\* The i-th topic of a client list that writes its topics as hex literals.
LiteralTopic(i) == <<"X", "'", HexChar(i % 16), "'">>

\* A topic carrying query syntax: "1 OR 1".
TopicOr == <<"1", " ", "O", "R", " ", "1">>

\* Block identifiers.  "zz" parses neither as a tag nor as a hash.
BlockTags == {"latest", "earliest"}
TagStrings == BlockTags \cup {"zz"}
BlockHashes == {"0xaa"}
HashStrings == BlockHashes \cup {"zz"}

---------------------------------------------------------------------------
(* The chain data source: for every tag and every hash, Ok(Some(block)),   *)
(* Ok(None) or Err.                                                        *)

Lookups == [ok : {TRUE}, block : {None} \cup {Some(n) : n \in 0..MaxBlock}]
               \cup {[ok |-> FALSE, block |-> None]}

Providers == [by_tag : [BlockTags -> Lookups], by_hash : [BlockHashes -> Lookups]]

block_by_number_or_tag(p, tag) == p.by_tag[tag]

block_by_hash(p, hash) == p.by_hash[hash]

\* BlockNumberOrTag::from_str and FixedBytes::from_str, by their outcome on
\* the identifiers above.
BlockNumberOrTag_from_str(s) ==
    IF s \in BlockTags THEN Ok(s) ELSE Err(ErrorObject(-1, <<"parse error", s>>))

FixedBytes_from_str(s) ==
    IF s \in BlockHashes THEN Ok(s) ELSE Err(ErrorObject(-1, <<"parse error", s>>))

---------------------------------------------------------------------------
(* ValidatedQueryParams::new *)

\* The match on provider.block_by_number_or_tag(tag).
ResolveTag(p, tag) ==
    LET r == block_by_number_or_tag(p, tag) IN
    IF r.ok
    THEN IF r.block # None
         THEN Ok(r.block[1])
         ELSE Err(ErrorObject(-1, <<"No block found for block number or tag: ", tag>>))
    ELSE Err(ErrorObject(-1, <<"provider error", "">>))

\* from_str followed by the provider lookup of the parsed tag.
ResolveTagString(p, s) ==
    LET tag == BlockNumberOrTag_from_str(s) IN
    IF tag.ok THEN ResolveTag(p, tag.val[1]) ELSE tag

\* The (Some(block_hash), None, None) arm up to its block number.
ResolveHash_Anonymous(p, block_hash) ==
    LET h == FixedBytes_from_str(block_hash) IN
    IF ~h.ok THEN h
    ELSE LET r == block_by_hash(p, h.val[1]) IN
         IF r.ok
         THEN IF r.block # None
              THEN Ok(r.block[1])
              ELSE Err(ErrorObject(-1, <<"No block found for block hash: ", "">>))
         ELSE Err(ErrorObject(-1, <<"provider error", "">>))

ResolveHash(p, block_hash) ==
    LET h == FixedBytes_from_str(block_hash) IN
    IF ~h.ok THEN h
    ELSE LET r == block_by_hash(p, h.val[1]) IN
         IF r.ok
         THEN IF r.block # None
              THEN Ok(r.block[1])
              ELSE Err(ErrorObject(-1, <<"No block found for block hash: ", block_hash>>))
         ELSE Err(ErrorObject(-1, <<"provider error", "">>))

\* The last match arm: (Some(_), Some(_), _) | (Some(_), _, Some(_)).
IsAmbiguous_BothOnly(block_hash, from_block, to_block) ==
    block_hash # None /\ from_block # None /\ to_block # None

IsAmbiguous(block_hash, from_block, to_block) ==
    block_hash # None /\ (from_block # None \/ to_block # None)

AmbiguousRange ==
    ErrorObject(-32001,
        <<"Parameters fromBlock and toBlock cannot be used if blockHash parameter is present", "">>)

\* (num, num) of the arms that resolve one block.
SameBlock_FromGenesis(num) == <<0, num>>

SameBlock(num) == <<num, num>>

\* (from, to) of the arms that resolve a range.
RangePair_Ordered(from, to) == IF from <= to THEN <<from, to>> ELSE <<to, from>>

RangePair(from, to) == <<from, to>>

\* let (from_block, to_block) = match (params.block_hash, params.from_block, params.to_block)
ResolveRange(p, ps) ==
    LET bh == ps.block_hash
        fb == ps.from_block
        tb == ps.to_block
    IN
    IF IsAmbiguous(bh, fb, tb) THEN Err(AmbiguousRange)
    ELSE IF bh # None THEN
        LET num == ResolveHash(p, bh[1]) IN
        IF num.ok THEN Ok(SameBlock(num.val[1])) ELSE num
    ELSE IF fb = None /\ tb = None THEN
        LET num == ResolveTag(p, "latest") IN
        IF num.ok THEN Ok(SameBlock(num.val[1])) ELSE num
    ELSE IF fb = None THEN
        LET from == ResolveTag(p, "latest") IN
        IF ~from.ok THEN from
        ELSE LET to == ResolveTagString(p, tb[1]) IN
             IF ~to.ok THEN to ELSE Ok(RangePair(from.val[1], to.val[1]))
    ELSE IF tb = None THEN
        LET from == ResolveTagString(p, fb[1]) IN
        IF ~from.ok THEN from
        ELSE LET to == ResolveTag(p, "latest") IN
             IF ~to.ok THEN to ELSE Ok(RangePair(from.val[1], to.val[1]))
    ELSE
        LET from == ResolveTagString(p, fb[1]) IN
        IF ~from.ok THEN from
        ELSE LET to == ResolveTagString(p, tb[1]) IN
             IF ~to.ok THEN to ELSE Ok(RangePair(from.val[1], to.val[1]))

\* if params.topics.len() > 4
TooManyTopicsCheck_OffByOne(topics) == Len(topics) > MaxTopics + 1

TooManyTopicsCheck(topics) == Len(topics) > MaxTopics

TooManyTopics == ErrorObject(32002, <<"Only up to four topics are allowed", "">>)

\* topics[idx] = Some(topic) for every (idx, topic) of the enumeration, over
\* [None, None, None, None].  Slots are numbered 0..3 as in the source; a
\* list longer than the array is cut here only to keep the operator total
\* (new returns before this loop for such a list).
TopicSlots(topics) ==
    [i \in 0..(MaxTopics - 1) |-> IF i + 1 <= Len(topics) THEN Some(topics[i + 1]) ELSE None]

New(p, ps) ==
    LET range == ResolveRange(p, ps) IN
    IF ~range.ok THEN range
    ELSE IF TooManyTopicsCheck(ps.topics) THEN Err(TooManyTopics)
    ELSE Ok([from_block |-> range.val[1][1],
             to_block   |-> range.val[1][2],
             addresses  |-> ps.address,
             topics     |-> TopicSlots(ps.topics)])

---------------------------------------------------------------------------
(* Display for ValidatedQueryParams *)

RECURSIVE Join(_, _)
\* Vec<String>::join(sep)
Join(strs, sep) ==
    IF strs = <<>> THEN <<>>
    ELSE IF Len(strs) = 1 THEN strs[1]
    ELSE strs[1] \o sep \o Join(Tail(strs), sep)

RECURSIVE ToDecimal(_)
\* Display of a non-negative integer.
ToDecimal(n) ==
    IF n < 10 THEN <<HexChar(n)>> ELSE ToDecimal(n \div 10) \o <<HexChar(n % 10)>>

\* &addr[2..] panics when the string is shorter than two bytes.
SliceFrom2Panics(addr) == Len(addr) < 2

SliceFrom2(addr) == SubSeq(addr, 3, Len(addr))

\* format!("X'{}'", &addr[2..])
AddressLiteral(addr) == <<"X", "'">> \o SliceFrom2(addr) \o <<"'">>

\* address_clause
AddressClause(v) ==
    IF v.addresses # <<>>
    THEN Some(<<"a", "d", "d", "r", "e", "s", "s", " ", "I", "N", " ", "(">>
              \o Join([k \in 1..Len(v.addresses) |-> AddressLiteral(v.addresses[k])],
                      <<",", " ">>)
              \o <<")">>)
    ELSE None

\* block_range_clause
BlockRangeClause(v) ==
    Some(<<"b", "l", "o", "c", "k", "_", "n", "u", "m", "b", "e", "r", " ",
           "B", "E", "T", "W", "E", "E", "N", " ">>
         \o ToDecimal(v.from_block) \o <<" ", "A", "N", "D", " ">> \o ToDecimal(v.to_block))

\* "topic_i = ", the fixed text of topic_i_clause
TopicHead(i) == <<"t", "o", "p", "i", "c", "_", HexChar(i), " ", "=", " ">>

\* topic_0_clause .. topic_3_clause: self.topics[i].as_ref().map(|t| format!("topic_i = {t}"))
TopicClause(v, i) ==
    IF v.topics[i] # None THEN Some(TopicHead(i) \o v.topics[i][1]) ELSE None

\* let clauses = [address_clause, block_range_clause, topic_0_clause, ...]
Clauses_RangeFirst(v) ==
    <<BlockRangeClause(v), AddressClause(v), TopicClause(v, 0), TopicClause(v, 1),
      TopicClause(v, 2), TopicClause(v, 3)>>

Clauses(v) ==
    <<AddressClause(v), BlockRangeClause(v), TopicClause(v, 0), TopicClause(v, 1),
      TopicClause(v, 2), TopicClause(v, 3)>>

RECURSIVE Flatten(_)
\* clauses.into_iter().flatten().collect()
Flatten(options) ==
    IF options = <<>> THEN <<>> ELSE Head(options) \o Flatten(Tail(options))

\* fmt: the rendered text, or a panic out of the address slice.
Fmt(v) ==
    IF \E k \in 1..Len(v.addresses) : SliceFrom2Panics(v.addresses[k])
    THEN [panicked |-> TRUE, text |-> <<>>]
    ELSE LET filtered_clauses == Flatten(Clauses(v)) IN
         [panicked |-> FALSE,
          text |-> IF filtered_clauses # <<>>
                   THEN <<"W", "H", "E", "R", "E", " ">>
                        \o Join(filtered_clauses, <<" ", "A", "N", "D", " ">>)
                   ELSE <<>>]

---------------------------------------------------------------------------
(* From<RawGetLogsRow> for GetLogsResult *)

RECURSIVE HexEncode(_)
\* hex::encode: two lowercase hex digits per byte.
HexEncode(bytes) ==
    IF bytes = <<>> THEN <<>>
    ELSE <<HexChar(Head(bytes) \div 16), HexChar(Head(bytes) % 16)>> \o HexEncode(Tail(bytes))

\* format!("0x{}", hex::encode(bytes))
Hex0x(bytes) == <<"0", "x">> \o HexEncode(bytes)

RECURSIVE LowBytes(_, _)
\* The count low-order bytes of m >= 0, most significant first.
LowBytes(m, count) ==
    IF count = 0 THEN <<>> ELSE LowBytes(m \div 256, count - 1) \o <<m % 256>>

\* i64::to_be_bytes: eight bytes, two's complement (a negative n is the
\* bitwise complement of -(n + 1)).
ToBeBytes(n) ==
    IF n >= 0 THEN LowBytes(n, 8)
    ELSE [k \in 1..8 |-> 255 - LowBytes(-(n + 1), 8)[k]]

\* i64::to_string
I64ToString(n) == IF n >= 0 THEN ToDecimal(n) ELSE <<"-">> \o ToDecimal(-n)

\* block_number: hex::encode(value.block_number.to_be_bytes())
BlockNumberField_Prefixed(n) == Hex0x(ToBeBytes(n))

BlockNumberField(n) == HexEncode(ToBeBytes(n))

\* value.topic_i.map(|t| format!("0x{}", hex::encode(t)))
TopicField(topic) == IF topic # None THEN Some(Hex0x(topic[1])) ELSE None

From(row) ==
    [address           |-> Hex0x(row.address),
     block_hash        |-> Hex0x(row.block_hash),
     block_number      |-> BlockNumberField(row.block_number),
     data              |-> Hex0x(row.data),
     log_index         |-> I64ToString(row.block_log_index),
     removed           |-> row.removed,
     topics            |-> [i \in 0..3 |-> TopicField(<<row.topic_0, row.topic_1,
                                                       row.topic_2, row.topic_3>>[i + 1])],
     transaction_hash  |-> Hex0x(row.transaction_hash),
     transaction_index |-> I64ToString(row.transaction_index)]

---------------------------------------------------------------------------
(* ShadowRpcApiServer::get_logs *)

\* The collect of the validations ends before the query loop starts: the
\* loop runs once every filter object of the request is validated.
QueryLoopMayRun_Lazy(validated, total) == validated >= 1

QueryLoopMayRun(validated, total) == validated = total

\* format!("{base_stmt} {query_params}"), base_stmt standing for the fixed
\* SELECT text.
SqlText(predicate) == <<"base_stmt", " ">> \o predicate

\* .map_err(|e| ErrorObject::owned(INTERNAL_ERROR_CODE, e.to_string(), None))?
QueryFailure_Partial(fetched, e) == Ok(fetched)

QueryFailure(fetched, e) == Err(ErrorObject(-32603, <<e, "">>))

\* raw_rows.into_iter().map(GetLogsResult::from).collect()
ConvertRows(raw_rows) == [k \in 1..Len(raw_rows) |-> From(raw_rows[k])]

---------------------------------------------------------------------------
(* SpecNew: ValidatedQueryParams::new on one filter object *)

LiteralTopics(n) == [i \in 1..n |-> LiteralTopic(i - 1)]

NewParams ==
    [address    : {<<>>, <<AddrAb>>},
     block_hash : {None} \cup {Some(h) : h \in HashStrings},
     from_block : {None} \cup {Some(s) : s \in TagStrings},
     to_block   : {None} \cup {Some(s) : s \in TagStrings},
     topics     : {LiteralTopics(n) : n \in 0..MaxTopicsLen}]

IdleRest ==
    /\ query_params = None /\ fmt_result = None
    /\ value = None /\ from_result = None
    /\ req = <<>> /\ pc = "idle" /\ validated_param_objs = <<>> /\ idx = 0
    /\ results = <<>> /\ response = None /\ sql = <<>> /\ events = <<>>

InitNew ==
    /\ provider \in Providers
    /\ params \in NewParams
    /\ new_result = None
    /\ IdleRest

CallNew ==
    /\ new_result = None
    /\ new_result' = Some(New(provider, params))
    /\ UNCHANGED <<provider, params, query_params, fmt_result, value, from_result,
                   req, pc, validated_param_objs, idx, results, response, sql, events>>

NextNew == CallNew

SpecNew == InitNew /\ [][NextNew]_vars

---------------------------------------------------------------------------
(* SpecFmt: rendering of the filters ValidatedQueryParams::new returns *)

FmtAddressLists == {<<>>, <<AddrAb>>, <<AddrAb, Addr12>>, <<AddrShort>>, <<AddrQuote>>}

\* Topic lists written as hex literals, and the same with query syntax in
\* the first or the last place.
FmtTopicLists ==
    {LiteralTopics(n) : n \in 0..MaxTopicsLen}
        \cup {<<TopicOr>> \o LiteralTopics(n) : n \in 0..1}
        \cup {LiteralTopics(n) \o <<TopicOr>> : n \in 1..2}

FmtParams ==
    [address    : FmtAddressLists,
     block_hash : {None},
     from_block : {None, Some("earliest")},
     to_block   : {None, Some("latest")},
     topics     : FmtTopicLists]

\* The filters rendered are those new returns for FmtParams.
InitFmt ==
    /\ provider \in {p \in Providers : \A h \in BlockHashes : p.by_hash[h] = [ok |-> TRUE, block |-> None]}
    /\ \E ps \in FmtParams :
          /\ New(provider, ps).ok
          /\ query_params = Some(New(provider, ps).val[1])
    /\ fmt_result = None
    /\ params = [address |-> <<>>, block_hash |-> None, from_block |-> None,
                 to_block |-> None, topics |-> <<>>]
    /\ new_result = None
    /\ value = None /\ from_result = None
    /\ req = <<>> /\ pc = "idle" /\ validated_param_objs = <<>> /\ idx = 0
    /\ results = <<>> /\ response = None /\ sql = <<>> /\ events = <<>>

CallFmt ==
    /\ query_params # None
    /\ fmt_result = None
    /\ fmt_result' = Some(Fmt(query_params[1]))
    /\ UNCHANGED <<provider, params, new_result, query_params, value, from_result,
                   req, pc, validated_param_objs, idx, results, response, sql, events>>

NextFmt == CallFmt

SpecFmt == InitFmt /\ [][NextFmt]_vars

---------------------------------------------------------------------------
(* SpecFrom: conversion of one stored row *)

Rows ==
    [address               : {<<18>>, <<171, 205>>},
     block_hash            : {<<255, 0>>},
     block_log_index       : {0, 7, 12},
     block_number          : {0, 10, 255, 256, -1},
     data                  : {<<>>, <<0, 1>>},
     removed               : BOOLEAN,
     topic_0               : {None, Some(<<10>>)},
     topic_1               : {None, Some(<<10>>)},
     topic_2               : {None, Some(<<10>>)},
     topic_3               : {None, Some(<<10, 11>>)},
     transaction_hash      : {<<1, 35>>},
     transaction_index     : {0, 15},
     transaction_log_index : {0}]

InitFrom ==
    /\ value \in {Some(r) : r \in Rows}
    /\ from_result = None
    /\ provider \in {p \in Providers : \A h \in BlockHashes : \A t \in BlockTags :
                        /\ p.by_hash[h] = [ok |-> TRUE, block |-> None]
                        /\ p.by_tag[t] = [ok |-> TRUE, block |-> Some(0)]}
    /\ params = [address |-> <<>>, block_hash |-> None, from_block |-> None,
                 to_block |-> None, topics |-> <<>>]
    /\ new_result = None
    /\ query_params = None /\ fmt_result = None
    /\ req = <<>> /\ pc = "idle" /\ validated_param_objs = <<>> /\ idx = 0
    /\ results = <<>> /\ response = None /\ sql = <<>> /\ events = <<>>

CallFrom ==
    /\ value # None
    /\ from_result = None
    /\ from_result' = Some(From(value[1]))
    /\ UNCHANGED <<provider, params, new_result, query_params, fmt_result, value,
                   req, pc, validated_param_objs, idx, results, response, sql, events>>

NextFrom == CallFrom

SpecFrom == InitFrom /\ [][NextFrom]_vars

---------------------------------------------------------------------------
(* Spec: get_logs serving one request while the chain advances *)

\* The filter objects of the requests: defaults, a hash alone, a hash
\* with fromBlock, five topics, a malformed toBlock, an address too short
\* to render.
ReqFilters ==
    {[address |-> <<AddrAb>>, block_hash |-> None, from_block |-> None,
      to_block |-> None, topics |-> <<>>],
     [address |-> <<>>, block_hash |-> Some("0xaa"), from_block |-> None,
      to_block |-> None, topics |-> LiteralTopics(1)],
     [address |-> <<>>, block_hash |-> Some("0xaa"), from_block |-> Some("latest"),
      to_block |-> None, topics |-> <<>>],
     [address |-> <<>>, block_hash |-> None, from_block |-> Some("earliest"),
      to_block |-> None, topics |-> LiteralTopics(MaxTopics + 1)],
     [address |-> <<>>, block_hash |-> None, from_block |-> None,
      to_block |-> Some("zz"), topics |-> <<>>],
     [address |-> <<AddrShort>>, block_hash |-> None, from_block |-> None,
      to_block |-> None, topics |-> <<>>]}

Requests == UNION {[1..n -> ReqFilters] : n \in 0..MaxFilters}

\* The chain data sources of Spec: block 0 is the earliest block and the
\* block of hash 0xaa; "latest" is any lookup.
ReqProviders ==
    {p \in Providers :
        /\ p.by_tag["earliest"] = [ok |-> TRUE, block |-> Some(0)]
        /\ p.by_hash["0xaa"] = [ok |-> TRUE, block |-> Some(0)]}

\* The rows of the store.
StoreRowA ==
    [address |-> <<18>>, block_hash |-> <<255, 0>>, block_log_index |-> 0,
     block_number |-> 0, data |-> <<>>, removed |-> FALSE,
     topic_0 |-> Some(<<10>>), topic_1 |-> None, topic_2 |-> None, topic_3 |-> None,
     transaction_hash |-> <<1, 35>>, transaction_index |-> 0,
     transaction_log_index |-> 0]

StoreRowB == [StoreRowA EXCEPT !.block_log_index = 1, !.removed = TRUE]

\* What fetch_all may answer: the first rows of the store, up to MaxRows of
\* them, in the store's order.
StoreAnswers ==
    {[k \in 1..n |-> IF k % 2 = 1 THEN StoreRowA ELSE StoreRowB] : n \in 0..MaxRows}

Event(op, obj, ok) == [op |-> op, obj |-> obj, ok |-> ok]

Init ==
    /\ provider \in ReqProviders
    /\ params = [address |-> <<>>, block_hash |-> None, from_block |-> None,
                 to_block |-> None, topics |-> <<>>]
    /\ new_result = None
    /\ IdleRest

\* A request arrives.
Receive ==
    /\ pc = "idle"
    /\ \E r \in Requests : req' = r
    /\ pc' = "run"
    /\ UNCHANGED <<provider, params, new_result, query_params, fmt_result, value,
                   from_result, validated_param_objs, idx, results, response, sql, events>>

\* The next ValidatedQueryParams::new of the collect; the first error
\* returns from get_logs.
ValidateNext ==
    /\ pc = "run"
    /\ Len(validated_param_objs) < Len(req)
    /\ LET k == Len(validated_param_objs) + 1
           r == New(provider, req[k])
       IN /\ events' = Append(events, Event("validate", k, r.ok))
          /\ IF r.ok
             THEN /\ validated_param_objs' = Append(validated_param_objs, r.val[1])
                  /\ UNCHANGED <<pc, response>>
             ELSE /\ response' = Some(r)
                  /\ pc' = "done"
                  /\ UNCHANGED validated_param_objs
    /\ UNCHANGED <<provider, params, new_result, query_params, fmt_result, value,
                   from_result, req, idx, results, sql>>

\* The loop body up to the await: the predicate is rendered and the query
\* sent to the store.  A panic of the rendering ends the handler without a
\* response.
IssueQuery ==
    /\ pc = "run"
    /\ QueryLoopMayRun(Len(validated_param_objs), Len(req))
    /\ idx < Len(validated_param_objs)
    /\ LET rendered == Fmt(validated_param_objs[idx + 1]) IN
       IF rendered.panicked
       THEN /\ pc' = "panicked"
            /\ UNCHANGED <<sql, events>>
       ELSE /\ sql' = SqlText(rendered.text)
            /\ events' = Append(events, Event("query", idx + 1, TRUE))
            /\ pc' = "await"
    /\ UNCHANGED <<provider, params, new_result, query_params, fmt_result, value,
                   from_result, req, validated_param_objs, idx, results, response>>

\* fetch_all answers with rows: they are converted and appended.
FetchAllOk ==
    /\ pc = "await"
    /\ \E raw_rows \in StoreAnswers :
          results' = results \o ConvertRows(raw_rows)
    /\ events' = Append(events, Event("fetched", idx + 1, TRUE))
    /\ idx' = idx + 1
    /\ pc' = "run"
    /\ UNCHANGED <<provider, params, new_result, query_params, fmt_result, value,
                   from_result, req, validated_param_objs, response, sql>>

\* fetch_all fails: get_logs returns the internal error.
FetchAllErr ==
    /\ pc = "await"
    /\ events' = Append(events, Event("fetched", idx + 1, FALSE))
    /\ response' = Some(QueryFailure(results, "store error"))
    /\ pc' = "done"
    /\ UNCHANGED <<provider, params, new_result, query_params, fmt_result, value,
                   from_result, req, validated_param_objs, idx, results, sql>>

\* Ok(GetLogsResponse { .., result: results })
Return ==
    /\ pc = "run"
    /\ Len(validated_param_objs) = Len(req)
    /\ idx = Len(validated_param_objs)
    /\ response' = Some(Ok(results))
    /\ pc' = "done"
    /\ UNCHANGED <<provider, params, new_result, query_params, fmt_result, value,
                   from_result, req, validated_param_objs, idx, results, sql, events>>

\* The chain data source moves on while the request is served.
ChainUpdate ==
    /\ pc \in {"run", "await"}
    /\ \E p \in ReqProviders : p # provider /\ provider' = p
    /\ UNCHANGED <<params, new_result, query_params, fmt_result, value, from_result,
                   req, pc, validated_param_objs, idx, results, response, sql, events>>

Next ==
    \/ Receive
    \/ ValidateNext
    \/ IssueQuery
    \/ FetchAllOk
    \/ FetchAllErr
    \/ Return
    \/ ChainUpdate

Spec == Init /\ [][Next]_vars

---------------------------------------------------------------------------
(* Properties of ValidatedQueryParams::new, checked under SpecNew *)

NewCalled == new_result # None

\* What the chain data source answers for an identifier string, as an
\* Option: None when the string does not parse, is not found or the
\* provider fails.
TagResolution(s) ==
    IF s \in BlockTags /\ provider.by_tag[s].ok THEN provider.by_tag[s].block ELSE None

HashResolution(s) ==
    IF s \in BlockHashes /\ provider.by_hash[s].ok THEN provider.by_hash[s].block ELSE None

\* The bound a range filter asks for: the field when present, "latest" otherwise.
BoundResolution(field) ==
    IF field = None THEN TagResolution("latest") ELSE TagResolution(field[1])

HashWithRange ==
    params.block_hash # None /\ (params.from_block # None \/ params.to_block # None)

NoBlockFields ==
    params.block_hash = None /\ params.from_block = None /\ params.to_block = None

HashAlone ==
    params.block_hash # None /\ params.from_block = None /\ params.to_block = None

RangeFields ==
    params.block_hash = None /\ (params.from_block # None \/ params.to_block # None)

\* The block fields of the filter resolve: the filter is not ambiguous and
\* every identifier new consults resolves to a block number.
BlockFieldsResolve ==
    \/ NoBlockFields /\ TagResolution("latest") # None
    \/ HashAlone /\ HashResolution(params.block_hash[1]) # None
    \/ RangeFields /\ BoundResolution(params.from_block) # None
                   /\ BoundResolution(params.to_block) # None

\* C1: a filter with blockHash together with fromBlock or toBlock (or both)
\* is always rejected with the AmbiguousRange error, whatever the chain data
\* source answers and whatever the other fields are.
C1_AmbiguousRange ==
    (NewCalled /\ HashWithRange)
        => (~new_result[1].ok /\ new_result[1].err = Some(AmbiguousRange))

\* C1 witness: hash and toBlock only, a malformed hash and too many topics,
\* rejected as ambiguous.
C1_Witness ==
    /\ NewCalled
    /\ params.block_hash = Some("zz") /\ params.from_block = None /\ params.to_block # None
    /\ Len(params.topics) > MaxTopics
    /\ new_result[1].err = Some(AmbiguousRange)

\* C2 as stated: with no block field set and "latest" resolving to n,
\* validation succeeds with from_block = to_block = n.
C2_Original ==
    (NewCalled /\ NoBlockFields /\ TagResolution("latest") # None)
        => /\ new_result[1].ok
           /\ new_result[1].val[1].from_block = TagResolution("latest")[1]
           /\ new_result[1].val[1].to_block = TagResolution("latest")[1]

\* C2 amended: with no block field set, at most four topics and "latest"
\* resolving to n, validation succeeds with from_block = to_block = n; with
\* more than four topics it fails with TooManyTopics.
C2_DefaultsLatest ==
    (NewCalled /\ NoBlockFields /\ TagResolution("latest") # None)
        => IF Len(params.topics) <= MaxTopics
           THEN /\ new_result[1].ok
                /\ new_result[1].val[1].from_block = TagResolution("latest")[1]
                /\ new_result[1].val[1].to_block = TagResolution("latest")[1]
           ELSE new_result[1].err = Some(TooManyTopics)

\* C2 witness: no block fields, "latest" at a block other than 0, accepted.
C2_Witness ==
    /\ NewCalled /\ NoBlockFields
    /\ TagResolution("latest") = Some(MaxBlock)
    /\ new_result[1].ok
    /\ new_result[1].val[1].from_block = MaxBlock

\* C3 as stated: with blockHash alone, a hash resolving to n yields
\* from_block = to_block = n, and a hash that is not found fails with the
\* "no block found" error naming the hash.
C3_Original ==
    (NewCalled /\ HashAlone /\ params.block_hash[1] \in BlockHashes
              /\ provider.by_hash[params.block_hash[1]].ok)
        => LET h == params.block_hash[1]
               n == provider.by_hash[h].block
           IN IF n # None
              THEN /\ new_result[1].ok
                   /\ new_result[1].val[1].from_block = n[1]
                   /\ new_result[1].val[1].to_block = n[1]
              ELSE new_result[1].err =
                       Some(ErrorObject(-1, <<"No block found for block hash: ", h>>))

\* C3 amended: as stated when the topic list has at most four entries; a
\* hash resolving to n with more than four topics fails with TooManyTopics.
\* A hash that is not found fails with the error naming it in either case.
C3_HashAlone ==
    (NewCalled /\ HashAlone /\ params.block_hash[1] \in BlockHashes
              /\ provider.by_hash[params.block_hash[1]].ok)
        => LET h == params.block_hash[1]
               n == provider.by_hash[h].block
           IN IF n = None
              THEN new_result[1].err =
                       Some(ErrorObject(-1, <<"No block found for block hash: ", h>>))
              ELSE IF Len(params.topics) <= MaxTopics
              THEN /\ new_result[1].ok
                   /\ new_result[1].val[1].from_block = n[1]
                   /\ new_result[1].val[1].to_block = n[1]
              ELSE new_result[1].err = Some(TooManyTopics)

\* C3 witness: a hash alone that the chain data source does not know,
\* rejected.
C3_Witness ==
    /\ NewCalled /\ HashAlone
    /\ params.block_hash[1] \in BlockHashes
    /\ provider.by_hash[params.block_hash[1]] = [ok |-> TRUE, block |-> None]
    /\ ~new_result[1].ok

\* C4: with blockHash absent and fromBlock or toBlock present, an accepted
\* filter carries the resolution of fromBlock (of "latest" when absent) and
\* the resolution of toBlock (of "latest" when absent), verbatim; whether
\* the filter is accepted does not depend on from_block <= to_block.
C4_RangeVerbatim ==
    (NewCalled /\ RangeFields)
        => LET f == BoundResolution(params.from_block)
               t == BoundResolution(params.to_block)
           IN /\ new_result[1].ok
                    => /\ f # None /\ t # None
                       /\ new_result[1].val[1].from_block = f[1]
                       /\ new_result[1].val[1].to_block = t[1]
              /\ (f # None /\ t # None /\ Len(params.topics) <= MaxTopics)
                    => new_result[1].ok

\* C4 witness: toBlock only, "latest" above the block toBlock resolves to,
\* accepted with from_block > to_block.
C4_Witness ==
    /\ NewCalled /\ RangeFields /\ params.from_block = None
    /\ new_result[1].ok
    /\ new_result[1].val[1].from_block > new_result[1].val[1].to_block

\* C5 as stated: more than four topics always fails with TooManyTopics,
\* whatever the other fields are.
C5_Original ==
    (NewCalled /\ Len(params.topics) > MaxTopics)
        => new_result[1].err = Some(TooManyTopics)

\* C5 amended: more than four topics fails with TooManyTopics whenever the
\* block fields resolve; when they are ambiguous, malformed, not found or
\* the provider fails, validation fails with that error instead.
C5_TooManyTopics ==
    (NewCalled /\ Len(params.topics) > MaxTopics)
        => /\ ~new_result[1].ok
           /\ new_result[1].err = Some(TooManyTopics) <=> BlockFieldsResolve

\* C5 witness: five topics on a range filter whose bounds resolve, rejected
\* with TooManyTopics.
C5_Witness ==
    /\ NewCalled /\ RangeFields /\ BlockFieldsResolve
    /\ Len(params.topics) = MaxTopics + 1
    /\ new_result[1].err = Some(TooManyTopics)

---------------------------------------------------------------------------
(* Properties of get_logs, checked under Spec *)

EventsOf(op) == {j \in 1..Len(events) : events[j].op = op}

ValidationFailed == \E j \in EventsOf("validate") : ~events[j].ok

QueryFailed == \E j \in EventsOf("fetched") : ~events[j].ok

\* C6: a filter object whose validation fails is never queried, before or
\* after the failure: every store query of a filter object follows the
\* successful validation of that object, and once the validation of any
\* filter object of the request has failed the events hold no store query
\* at all.
C6_ValidationBeforeStore ==
    /\ \A i \in EventsOf("query") :
          \E j \in 1..(i - 1) : events[j] = Event("validate", events[i].obj, TRUE)
    /\ \A j \in EventsOf("validate") :
          ~events[j].ok => /\ EventsOf("query") = {}
                           /\ \A i \in EventsOf("validate") : i >= j => i = j
    /\ ValidationFailed => pc = "done"

\* C6 witness: the second filter object fails validation after the first
\* passed; the request has ended.
C6_Witness ==
    /\ Len(events) = 2
    /\ events[1] = Event("validate", 1, TRUE)
    /\ events[2] = Event("validate", 2, FALSE)
    /\ pc = "done"

\* C7: once the validation or the store query of a filter object has
\* failed, get_logs has returned an error carrying no rows, whatever was
\* fetched before; a response with rows is returned only after every
\* filter object of the request was validated, queried and answered.
C7_NoPartialResults ==
    /\ (ValidationFailed \/ QueryFailed)
          => /\ pc = "done"
             /\ response # None
             /\ ~response[1].ok
             /\ response[1].val = None
    /\ (response # None /\ response[1].ok)
          => /\ ~ValidationFailed /\ ~QueryFailed
             /\ \A k \in 1..Len(req) :
                   /\ \E j \in EventsOf("validate") : events[j] = Event("validate", k, TRUE)
                   /\ \E j \in EventsOf("query") : events[j].obj = k
                   /\ \E j \in EventsOf("fetched") : events[j] = Event("fetched", k, TRUE)
             /\ response[1].val[1] = results

\* C7 witness: the store query of the second filter object fails after the
\* first one returned rows; the response is the error.
C7_Witness ==
    /\ QueryFailed
    /\ idx = 1
    /\ results # <<>>
    /\ response # None /\ ~response[1].ok

\* C11: the rendering of a validated filter never panics: whatever the
\* address list of a filter object, get_logs goes from its validation to a
\* store query for it or to a returned error, and never ends without a
\* response in the rendering.
C11_RenderingCompletes == pc # "panicked"

---------------------------------------------------------------------------
(* Properties of the rendering, checked under SpecFmt *)

Rendered == fmt_result # None /\ ~fmt_result[1].panicked

\* pat occurs in text at position i.
HasAt(text, pat, i) ==
    /\ i >= 1
    /\ i + Len(pat) - 1 <= Len(text)
    /\ SubSeq(text, i, i + Len(pat) - 1) = pat

Positions(text, pat) == {i \in 1..Len(text) : HasAt(text, pat, i)}

AddressHead == <<"a", "d", "d", "r", "e", "s", "s", " ", "I", "N", " ", "(">>
RangeHead == <<"b", "l", "o", "c", "k", "_", "n", "u", "m", "b", "e", "r", " ",
               "B", "E", "T", "W", "E", "E", "N", " ">>
TopicHeadText(i) == <<"t", "o", "p", "i", "c", "_">> \o <<HexDigits[i + 1]>> \o <<" ", "=", " ">>
WhereText == <<"W", "H", "E", "R", "E", " ">>
AndText == <<" ", "A", "N", "D", " ">>

\* The heads of the six clauses in the order the claim fixes, each with
\* whether the filter calls for the clause.
ClauseHeads(v) ==
    <<[head |-> AddressHead, wanted |-> v.addresses # <<>>],
      [head |-> RangeHead, wanted |-> TRUE],
      [head |-> TopicHeadText(0), wanted |-> v.topics[0] # None],
      [head |-> TopicHeadText(1), wanted |-> v.topics[1] # None],
      [head |-> TopicHeadText(2), wanted |-> v.topics[2] # None],
      [head |-> TopicHeadText(3), wanted |-> v.topics[3] # None]>>

\* C8: a rendered predicate holds the address clause iff the address list
\* is non-empty, the block-range clause always, the topic_i clause iff slot
\* i is set; the clauses present stand in the order addresses, block range,
\* topic0..topic3, the first right after "WHERE " and every later one right
\* after an " AND "; with no addresses and no topics the text is the
\* block-range clause alone.
C8_ClauseOrder ==
    Rendered =>
        LET v == query_params[1]
            text == fmt_result[1].text
            heads == ClauseHeads(v)
            at(k) == Positions(text, heads[k].head)
            pos(k) == CHOOSE i \in at(k) : TRUE
            present == {k \in 1..6 : heads[k].wanted}
        IN /\ HasAt(text, WhereText, 1)
           /\ \A k \in 1..6 : Cardinality(at(k)) = IF heads[k].wanted THEN 1 ELSE 0
           /\ \A k \in present, m \in present : k < m => pos(k) < pos(m)
           /\ \A k \in present :
                 IF \A m \in present : k <= m
                 THEN pos(k) = Len(WhereText) + 1
                 ELSE HasAt(text, AndText, pos(k) - Len(AndText))
           /\ Cardinality(Positions(text, AndText)) = Cardinality(present)
           /\ (v.addresses = <<>> /\ \A i \in 0..3 : v.topics[i] = None)
                 => /\ present = {2}
                    /\ Len(text) = Len(WhereText) + Len(RangeHead) + Len(AndText)
                                       + Len(ToDecimal(v.from_block))
                                       + Len(ToDecimal(v.to_block))

\* C8 witness: two addresses and topic slots 0 and 1 rendered: clauses
\* before and after the block-range clause.
C8_Witness ==
    /\ Rendered
    /\ Len(query_params[1].addresses) = 2
    /\ query_params[1].topics[1] # None
    /\ query_params[1].topics[2] = None

\* C8 witness of the one-clause case: no addresses and no topics rendered.
C8_WitnessRangeOnly ==
    /\ Rendered
    /\ query_params[1].addresses = <<>>
    /\ query_params[1].topics[0] = None

RECURSIVE HexRunEnd(_, _)
\* The first position at or after i that holds no hex digit.
HexRunEnd(text, i) ==
    IF i <= Len(text) /\ IsHexChar(text[i]) THEN HexRunEnd(text, i + 1) ELSE i

RECURSIVE SkeletonFrom(_, _)
\* text from position i on with every hex literal X'<hex digits>' replaced
\* by "?".
SkeletonFrom(text, i) ==
    IF i > Len(text) THEN <<>>
    ELSE LET j == HexRunEnd(text, i + 2) IN
         IF HasAt(text, <<"X", "'">>, i) /\ j <= Len(text) /\ text[j] = "'"
         THEN <<"?">> \o SkeletonFrom(text, j + 1)
         ELSE <<text[i]>> \o SkeletonFrom(text, i + 1)

\* The predicate of a filter with a placeholder for every client value.
ExpectedSkeleton(v) ==
    WhereText
    \o (IF v.addresses # <<>>
        THEN AddressHead \o Join([k \in 1..Len(v.addresses) |-> <<"?">>], <<",", " ">>)
                 \o <<")">> \o AndText
        ELSE <<>>)
    \o RangeHead \o ToDecimal(v.from_block) \o AndText \o ToDecimal(v.to_block)
    \o Flatten([k \in 1..4 |-> IF v.topics[k - 1] # None
                               THEN AndText \o TopicHeadText(k - 1) \o <<"?">>
                               ELSE <<>>])

\* C9: every client-supplied value of a rendered predicate sits inside a hex
\* literal: with the hex literals taken out, the text is the fixed text of
\* the filter's clauses and nothing else.
C9_SafeLiterals ==
    Rendered => SkeletonFrom(fmt_result[1].text, 1) = ExpectedSkeleton(query_params[1])

---------------------------------------------------------------------------
(* Properties of the row conversion, checked under SpecFrom *)

Converted == from_result # None

\* The value of a lowercase hex digit; 16 for any other character.
HexValue(c) == IF IsHexChar(c) THEN CHOOSE d \in 0..15 : HexDigits[d + 1] = c ELSE 16

\* str is "0x" followed by two lowercase hex digits per byte of bytes.
IsHex0xOf(str, bytes) ==
    /\ Len(str) = 2 + 2 * Len(bytes)
    /\ str[1] = "0" /\ str[2] = "x"
    /\ \A k \in 1..Len(bytes) :
          /\ HexValue(str[2 * k + 1]) < 16 /\ HexValue(str[2 * k + 2]) < 16
          /\ 16 * HexValue(str[2 * k + 1]) + HexValue(str[2 * k + 2]) = bytes[k]

RECURSIVE DecimalValue(_)
\* The number a string of decimal digits writes; -1 when it is no such string.
DecimalValue(str) ==
    IF str = <<>> THEN 0
    ELSE LET d == HexValue(str[Len(str)])
             rest == DecimalValue(SubSeq(str, 1, Len(str) - 1))
         IN IF d > 9 \/ rest < 0 THEN -1 ELSE 10 * rest + d

\* str is the decimal string of n.
IsDecimalOf(str, n) ==
    /\ str # <<>>
    /\ IF n >= 0 THEN DecimalValue(str) = n
       ELSE str[1] = "-" /\ Len(str) > 1 /\ DecimalValue(Tail(str)) = -n

RECURSIVE Pow16(_)
Pow16(k) == IF k = 0 THEN 1 ELSE 16 * Pow16(k - 1)

\* str is the sixteen lowercase hex digits of the eight big-endian bytes of
\* n (two's complement), for |n| < 16^7.
IsBeHexOf(str, n) ==
    LET m == IF n >= 0 THEN n ELSE -(n + 1)
        digit(k) == IF k <= 9 THEN 0 ELSE (m \div Pow16(16 - k)) % 16
    IN /\ Len(str) = 16
       /\ \A k \in 1..16 :
             HexValue(str[k]) = IF n >= 0 THEN digit(k) ELSE 15 - digit(k)

\* C10: a converted row carries every binary column as "0x" and the
\* lowercase hex of its bytes, the log index and the transaction index as
\* decimal strings, the block number as the sixteen hex digits of its
\* big-endian bytes with no prefix (10 gives "000000000000000a"), absent
\* topics as null and removed unchanged.
C10_RowEncoding ==
    Converted =>
        LET row == value[1]
            out == from_result[1]
            topic == <<row.topic_0, row.topic_1, row.topic_2, row.topic_3>>
        IN /\ IsHex0xOf(out.address, row.address)
           /\ IsHex0xOf(out.block_hash, row.block_hash)
           /\ IsHex0xOf(out.data, row.data)
           /\ IsHex0xOf(out.transaction_hash, row.transaction_hash)
           /\ \A i \in 0..3 :
                 IF topic[i + 1] = None THEN out.topics[i] = None
                 ELSE /\ out.topics[i] # None
                      /\ IsHex0xOf(out.topics[i][1], topic[i + 1][1])
           /\ IsDecimalOf(out.log_index, row.block_log_index)
           /\ IsDecimalOf(out.transaction_index, row.transaction_index)
           /\ IsBeHexOf(out.block_number, row.block_number)
           /\ row.block_number = 10
                 => out.block_number = <<"0", "0", "0", "0", "0", "0", "0", "0",
                                         "0", "0", "0", "0", "0", "0", "0", "a">>
           /\ out.removed = row.removed

\* C10 witness: block number 10 with a two-digit log index, an absent and a
\* present topic, converted.
C10_Witness ==
    /\ Converted
    /\ value[1].block_number = 10
    /\ value[1].block_log_index = 12
    /\ value[1].topic_0 = None /\ value[1].topic_3 # None
    /\ from_result[1].log_index = <<"1", "2">>

====
